---- MODULE Spec2Model ----
(***************************************************************************)
(* Daedalus (maze server) and Icarus (maze client) of showbufire/gc6.      *)
(*                                                                         *)
(* The server's Maze (rooms, icarus, end, StepsTaken), createMaze and its  *)
(* builder (addBoundary, findRoute, paveRoute, floodfill), the movement    *)
(* methods, and the client's explorer are modelled as one state machine.   *)
(* Coordinates are pairs <<x, y>>; c[1] is X and c[2] is Y.                *)
(***************************************************************************)
EXTENDS Integers, Sequences, FiniteSets, TLC

VARIABLES
    width,       \* viper "width": len(m.rooms[0])
    height,      \* viper "height": len(m.rooms)
    rooms,       \* m.rooms, indexed by coordinate <<x, y>>
    icarus,      \* m.icarus
    end,         \* m.end
    StepsTaken,  \* m.StepsTaken
    pc,          \* the position of the server's control
    src,         \* createMaze: (sx, sy)
    dst,         \* createMaze: (dx, dy)
    route,       \* buildMaze: route
    idx,         \* paveRoute: the position of the running loop in route
    bexplored,   \* buildMaze: the keys of explored
    order,       \* buildMaze: the indexes of rand.Perm not yet iterated
    stack,       \* buildMaze/floodfill: call frames [c, k], k the next neighbor
    ops,         \* wall operations of the running sealRoom/floodfill, in order
    scores,      \* the server's scores
    ret,         \* the last call served on the Maze and what it returned
    explored,    \* solveMaze: explored, coordinate -> Survey
    path,        \* solveMaze: path, [coordinates, size]
    cpc,         \* the position of the client's control
    walk         \* goback: src, dst, from, the coordinate c of the walk, n moves

vars == <<width, height, rooms, icarus, end, StepsTaken, pc, src, dst, route,
          idx, bexplored, order, stack, ops, scores, ret, explored, path,
          cpc, walk>>

(***************************************************************************)
(* Bounds of the model.                                                    *)
(***************************************************************************)
MaxSide == 4
MaxCells == 9
RouteSide == 4

Dims == {d \in (1..MaxSide) \X (1..MaxSide) : d[1] * d[2] <= MaxCells}

(***************************************************************************)
(* mazelib: directions, Survey, Room.                                      *)
(***************************************************************************)
N == 1
S == 2
E == 3
W == 4

cutLimit == 3

allDirections == <<N, S, E, W>>

NoWalls == [Top |-> FALSE, Right |-> FALSE, Bottom |-> FALSE, Left |-> FALSE]

EmptyRoom == [Walls |-> NoWalls, Start |-> FALSE, Treasure |-> FALSE]

AddWall(room, dir) ==
    CASE dir = N -> [room EXCEPT !.Walls.Top = TRUE]
      [] dir = S -> [room EXCEPT !.Walls.Bottom = TRUE]
      [] dir = E -> [room EXCEPT !.Walls.Right = TRUE]
      [] dir = W -> [room EXCEPT !.Walls.Left = TRUE]
      [] OTHER -> room

RmWall(room, dir) ==
    CASE dir = N -> [room EXCEPT !.Walls.Top = FALSE]
      [] dir = S -> [room EXCEPT !.Walls.Bottom = FALSE]
      [] dir = E -> [room EXCEPT !.Walls.Right = FALSE]
      [] dir = W -> [room EXCEPT !.Walls.Left = FALSE]
      [] OTHER -> room

HasWall(s, dir) ==
    CASE dir = N -> s.Top
      [] dir = S -> s.Bottom
      [] dir = W -> s.Left
      [] dir = E -> s.Right
      [] OTHER -> FALSE

(***************************************************************************)
(* common: coordinates and directions.                                     *)
(***************************************************************************)
\* ReverseDirection as a quarter turn.
ReverseDirection_Turn(dir) ==
    CASE dir = N -> E
      [] dir = E -> S
      [] dir = S -> W
      [] dir = W -> N
      [] OTHER -> 0

ReverseDirection(dir) ==
    CASE dir = N -> S
      [] dir = S -> N
      [] dir = E -> W
      [] dir = W -> E
      [] OTHER -> 0

Left(c) == <<c[1] - 1, c[2]>>

Right(c) == <<c[1] + 1, c[2]>>

Up(c) == <<c[1], c[2] - 1>>

Down(c) == <<c[1], c[2] + 1>>

Neighbor(c, dir) ==
    CASE dir = N -> Up(c)
      [] dir = S -> Down(c)
      [] dir = W -> Left(c)
      [] dir = E -> Right(c)
      [] OTHER -> <<0, 0>>

Neighbors(c) == <<Up(c), Down(c), Left(c), Right(c)>>

\* GetDir with the vertical directions swapped.
GetDir_Swapped(c, cc) ==
    IF c[1] = cc[1]
    THEN IF c[2] < cc[2] THEN N ELSE S
    ELSE IF c[1] < cc[1] THEN E ELSE W

GetDir(c, cc) ==
    IF c[1] = cc[1]
    THEN IF c[2] < cc[2] THEN S ELSE N
    ELSE IF c[1] < cc[1] THEN E ELSE W

(***************************************************************************)
(* The Maze and its rooms.                                                 *)
(***************************************************************************)
Cells(w, h) == (0 .. w - 1) \X (0 .. h - 1)

emptyMaze(w, h) == [c \in Cells(w, h) |-> EmptyRoom]

Width == width

Height == height

\* The coordinates of the rooms of the maze.
Grid == Cells(width, height)

contains(c) == 0 <= c[1] /\ c[1] < Width /\ 0 <= c[2] /\ c[2] < Height

\* GetRoom: ok is FALSE for a coordinate outside the maze, and the room is
\* then a fresh empty one that is no room of the maze.
GetRoom(rs, x, y) ==
    IF x < 0 \/ y < 0 \/ x >= Width \/ y >= Height
    THEN [ok |-> FALSE, room |-> EmptyRoom]
    ELSE [ok |-> TRUE, room |-> rs[<<x, y>>]]

\* room.AddWall(dir) on the room GetRoom(c) returns: a write to the fresh
\* room of a failed GetRoom is lost.
RoomAddWall(rs, c, dir) ==
    IF GetRoom(rs, c[1], c[2]).ok
    THEN [rs EXCEPT ![c] = AddWall(@, dir)]
    ELSE rs

RoomRmWall(rs, c, dir) ==
    IF GetRoom(rs, c[1], c[2]).ok
    THEN [rs EXCEPT ![c] = RmWall(@, dir)]
    ELSE rs

\* The receiver m of a Maze method is the record of the Maze's fields; a
\* method returns the Maze it leaves and its error ("nil" for none).
Maze == [rooms |-> rooms, icarus |-> icarus, end |-> end,
         StepsTaken |-> StepsTaken]

Icarus(m) == m.icarus

SetStartPoint(m, x, y) ==
    LET r == GetRoom(m.rooms, x, y) IN
    IF ~r.ok THEN [m |-> m, err |-> "bounds"]
    ELSE IF r.room.Treasure THEN [m |-> m, err |-> "treasure"]
    ELSE [m |-> [m EXCEPT !.rooms[<<x, y>>].Start = TRUE,
                          !.icarus = <<x, y>>],
          err |-> "nil"]

\* SetTreasure without the check of the Start flag.
SetTreasure_NoCheck(m, x, y) ==
    LET r == GetRoom(m.rooms, x, y) IN
    IF ~r.ok THEN [m |-> m, err |-> "bounds"]
    ELSE [m |-> [m EXCEPT !.rooms[<<x, y>>].Treasure = TRUE,
                          !.end = <<x, y>>],
          err |-> "nil"]

SetTreasure(m, x, y) ==
    LET r == GetRoom(m.rooms, x, y) IN
    IF ~r.ok THEN [m |-> m, err |-> "bounds"]
    ELSE IF r.room.Start THEN [m |-> m, err |-> "start"]
    ELSE [m |-> [m EXCEPT !.rooms[<<x, y>>].Treasure = TRUE,
                          !.end = <<x, y>>],
          err |-> "nil"]

Discover(m, x, y) ==
    LET r == GetRoom(m.rooms, x, y) IN
    IF ~r.ok THEN [survey |-> NoWalls, err |-> "nil"]
    ELSE [survey |-> r.room.Walls, err |-> "nil"]

\* LookAround without the victory check.
LookAround_NoVictory(m) == Discover(m, m.icarus[1], m.icarus[2])

LookAround(m) ==
    IF m.end[1] = m.icarus[1] /\ m.end[2] = m.icarus[2]
    THEN [survey |-> NoWalls, err |-> "victory"]
    ELSE Discover(m, m.icarus[1], m.icarus[2])

\* MoveLeft without the check of the wall.
MoveLeft_NoWallCheck(m) ==
    LET la == LookAround(m)
        x == Icarus(m)[1]
        y == Icarus(m)[2]
    IN  IF la.err # "nil" THEN [m |-> m, err |-> la.err]
        ELSE IF ~GetRoom(m.rooms, x - 1, y).ok THEN [m |-> m, err |-> "bounds"]
        ELSE [m |-> [m EXCEPT !.icarus = <<x - 1, y>>,
                              !.StepsTaken = @ + 1],
              err |-> "nil"]

MoveLeft(m) ==
    LET la == LookAround(m)
        x == Icarus(m)[1]
        y == Icarus(m)[2]
    IN  IF la.err # "nil" THEN [m |-> m, err |-> la.err]
        ELSE IF la.survey.Left THEN [m |-> m, err |-> "wall"]
        ELSE IF ~GetRoom(m.rooms, x - 1, y).ok THEN [m |-> m, err |-> "bounds"]
        ELSE [m |-> [m EXCEPT !.icarus = <<x - 1, y>>,
                              !.StepsTaken = @ + 1],
              err |-> "nil"]

\* MoveRight that counts the step before it looks at the wall.
MoveRight_CountsFirst(m) ==
    LET la == LookAround(m)
        x == Icarus(m)[1]
        y == Icarus(m)[2]
    IN  IF la.err # "nil" THEN [m |-> m, err |-> la.err]
        ELSE IF la.survey.Right
        THEN [m |-> [m EXCEPT !.StepsTaken = @ + 1], err |-> "wall"]
        ELSE IF ~GetRoom(m.rooms, x + 1, y).ok THEN [m |-> m, err |-> "bounds"]
        ELSE [m |-> [m EXCEPT !.icarus = <<x + 1, y>>,
                              !.StepsTaken = @ + 1],
              err |-> "nil"]

MoveRight(m) ==
    LET la == LookAround(m)
        x == Icarus(m)[1]
        y == Icarus(m)[2]
    IN  IF la.err # "nil" THEN [m |-> m, err |-> la.err]
        ELSE IF la.survey.Right THEN [m |-> m, err |-> "wall"]
        ELSE IF ~GetRoom(m.rooms, x + 1, y).ok THEN [m |-> m, err |-> "bounds"]
        ELSE [m |-> [m EXCEPT !.icarus = <<x + 1, y>>,
                              !.StepsTaken = @ + 1],
              err |-> "nil"]

\* MoveUp that surveys the room without LookAround's victory check.
MoveUp_NoLook(m) ==
    LET la == Discover(m, Icarus(m)[1], Icarus(m)[2])
        x == Icarus(m)[1]
        y == Icarus(m)[2]
    IN  IF la.survey.Top THEN [m |-> m, err |-> "wall"]
        ELSE IF ~GetRoom(m.rooms, x, y - 1).ok THEN [m |-> m, err |-> "bounds"]
        ELSE [m |-> [m EXCEPT !.icarus = <<x, y - 1>>,
                              !.StepsTaken = @ + 1],
              err |-> "nil"]

MoveUp(m) ==
    LET la == LookAround(m)
        x == Icarus(m)[1]
        y == Icarus(m)[2]
    IN  IF la.err # "nil" THEN [m |-> m, err |-> la.err]
        ELSE IF la.survey.Top THEN [m |-> m, err |-> "wall"]
        ELSE IF ~GetRoom(m.rooms, x, y - 1).ok THEN [m |-> m, err |-> "bounds"]
        ELSE [m |-> [m EXCEPT !.icarus = <<x, y - 1>>,
                              !.StepsTaken = @ + 1],
              err |-> "nil"]

\* MoveDown without StepsTaken++.
MoveDown_NoStep(m) ==
    LET la == LookAround(m)
        x == Icarus(m)[1]
        y == Icarus(m)[2]
    IN  IF la.err # "nil" THEN [m |-> m, err |-> la.err]
        ELSE IF la.survey.Bottom THEN [m |-> m, err |-> "wall"]
        ELSE IF ~GetRoom(m.rooms, x, y + 1).ok THEN [m |-> m, err |-> "bounds"]
        ELSE [m |-> [m EXCEPT !.icarus = <<x, y + 1>>], err |-> "nil"]

MoveDown(m) ==
    LET la == LookAround(m)
        x == Icarus(m)[1]
        y == Icarus(m)[2]
    IN  IF la.err # "nil" THEN [m |-> m, err |-> la.err]
        ELSE IF la.survey.Bottom THEN [m |-> m, err |-> "wall"]
        ELSE IF ~GetRoom(m.rooms, x, y + 1).ok THEN [m |-> m, err |-> "bounds"]
        ELSE [m |-> [m EXCEPT !.icarus = <<x, y + 1>>,
                              !.StepsTaken = @ + 1],
              err |-> "nil"]

(***************************************************************************)
(* The builder's wall operations.                                          *)
(***************************************************************************)
\* addWall that walls only the side of c.
addWall_OneSide(rs, c, dir) ==
    LET nb == Neighbor(c, dir) IN
    IF contains(nb) THEN RoomAddWall(rs, c, dir) ELSE rs

addWall(rs, c, dir) ==
    LET nb == Neighbor(c, dir) IN
    IF contains(nb)
    THEN RoomAddWall(RoomAddWall(rs, c, dir), nb, ReverseDirection(dir))
    ELSE rs

\* removeWallBetween opening the side of c1 only.
removeWallBetween_OneSide(rs, c1, c2) == RoomRmWall(rs, c1, GetDir(c1, c2))

removeWallBetween(rs, c1, c2) ==
    LET d1 == GetDir(c1, c2)
        d2 == GetDir(c2, c1)
    IN  RoomRmWall(RoomRmWall(rs, c1, d1), c2, d2)

\* sealRoom without the wall to the west.
sealRoom_NoWest(c) ==
    << <<"addWall", c, N>>, <<"addWall", c, S>>, <<"addWall", c, E>> >>

\* sealRoom(c) as the sequence of its four addWall calls.
sealRoom(c) ==
    << <<"addWall", c, N>>, <<"addWall", c, S>>,
       <<"addWall", c, E>>, <<"addWall", c, W>> >>

RECURSIVE addBoundaryX(_, _)
addBoundaryX(rs, x) ==
    IF x >= Width THEN rs
    ELSE addBoundaryX(
            RoomAddWall(RoomAddWall(rs, <<x, 0>>, N), <<x, Height - 1>>, S),
            x + 1)

RECURSIVE addBoundaryY(_, _)
addBoundaryY(rs, y) ==
    IF y >= Height THEN rs
    ELSE addBoundaryY(
            RoomAddWall(RoomAddWall(rs, <<0, y>>, W), <<Width - 1, y>>, E),
            y + 1)

addBoundary(rs) == addBoundaryY(addBoundaryX(rs, 0), 0)

(***************************************************************************)
(* Route planning: findNaiveRoute, rect, cuth, cutv, cut, findRoute.       *)
(* Every rand.Intn draw is an argument; the set of routes a call can       *)
(* return is the union over all draws.                                     *)
(***************************************************************************)
\* One iteration of findNaiveRoute's loop at c # dst; rnd is rand.Intn(2).
\* The step of findNaiveRoute moving on both axes while both differ.
findNaiveStep_Diagonal(c, d, rnd) ==
    IF c[1] # d[1] /\ c[2] # d[2]
    THEN <<IF c[1] < d[1] THEN c[1] + 1 ELSE c[1] - 1,
           IF c[2] < d[2] THEN c[2] + 1 ELSE c[2] - 1>>
    ELSE IF c[1] = d[1]
    THEN IF c[2] < d[2] THEN Down(c) ELSE Up(c)
    ELSE IF c[1] < d[1] THEN Right(c) ELSE Left(c)

findNaiveStep(c, d, rnd) ==
    LET dir0 == IF c[1] = d[1] THEN 0 ELSE rnd
        dir == IF c[2] = d[2] THEN 1 ELSE dir0
    IN  IF dir = 0
        THEN IF c[2] < d[2] THEN Down(c) ELSE Up(c)
        ELSE IF c[1] < d[1] THEN Right(c) ELSE Left(c)

RECURSIVE findNaiveRoute(_, _)
findNaiveRoute(c, d) ==
    IF c = d THEN {<<d>>}
    ELSE UNION {{<<c>> \o t : t \in findNaiveRoute(findNaiveStep(c, d, rnd), d)}
                : rnd \in {0, 1}}

rect(x, y, w, h) == [X |-> x, Y |-> y, W |-> w, H |-> h]

rectContains(r, c) ==
    r.X <= c[1] /\ c[1] < r.X + r.W /\ r.Y <= c[2] /\ c[2] < r.Y + r.H

toRect == rect(0, 0, Width, Height)

NoCut == [rsrc |-> rect(0, 0, 0, 0), csrc |-> <<0, 0>>,
          rdst |-> rect(0, 0, 0, 0), cdst |-> <<0, 0>>, ok |-> FALSE]

\* cuth with the cut line at the lower middle row.
cuth_LowMiddle(r, s, d, d1, d2) ==
    IF s[2] = d[2] \/ r.H <= cutLimit THEN NoCut
    ELSE LET cy == (s[2] + d[2]) \div 2
             cx0 == d1 + r.X
             cx == IF cx0 = s[1] \/ cx0 = d[1] THEN d2 + r.X ELSE cx0
             r1 == rect(r.X, r.Y, r.W, cy - r.Y)
             r2 == rect(r.X, cy, r.W, r.H - r1.H)
         IN  IF rectContains(r1, s)
             THEN [rsrc |-> r1, csrc |-> <<cx, cy - 1>>,
                   rdst |-> r2, cdst |-> <<cx, cy>>, ok |-> TRUE]
             ELSE [rsrc |-> r2, csrc |-> <<cx, cy>>,
                   rdst |-> r1, cdst |-> <<cx, cy - 1>>, ok |-> TRUE]

\* d1 and d2 are the first and the retry draw of rand.Intn(r.W).
cuth(r, s, d, d1, d2) ==
    IF s[2] = d[2] \/ r.H <= cutLimit THEN NoCut
    ELSE LET cy == (s[2] + d[2]) \div 2 + 1
             cx0 == d1 + r.X
             cx == IF cx0 = s[1] \/ cx0 = d[1] THEN d2 + r.X ELSE cx0
             r1 == rect(r.X, r.Y, r.W, cy - r.Y)
             r2 == rect(r.X, cy, r.W, r.H - r1.H)
         IN  IF rectContains(r1, s)
             THEN [rsrc |-> r1, csrc |-> <<cx, cy - 1>>,
                   rdst |-> r2, cdst |-> <<cx, cy>>, ok |-> TRUE]
             ELSE [rsrc |-> r2, csrc |-> <<cx, cy>>,
                   rdst |-> r1, cdst |-> <<cx, cy - 1>>, ok |-> TRUE]

\* d1 and d2 are the first and the retry draw of rand.Intn(r.H).
\* cutv without the test of r.W against cutLimit.
cutv_NoLimit(r, s, d, d1, d2) ==
    IF s[1] = d[1] THEN NoCut
    ELSE LET cx == (s[1] + d[1]) \div 2 + 1
             cy0 == d1 + r.Y
             cy == IF cy0 = s[2] \/ cy0 = d[2] THEN d2 + r.Y ELSE cy0
             r1 == rect(r.X, r.Y, cx - r.X, r.H)
             r2 == rect(cx, r.Y, r.W - r1.W, r.H)
         IN  IF rectContains(r1, s)
             THEN [rsrc |-> r1, csrc |-> <<cx - 1, cy>>,
                   rdst |-> r2, cdst |-> <<cx, cy>>, ok |-> TRUE]
             ELSE [rsrc |-> r2, csrc |-> <<cx, cy>>,
                   rdst |-> r1, cdst |-> <<cx - 1, cy>>, ok |-> TRUE]

cutv(r, s, d, d1, d2) ==
    IF s[1] = d[1] \/ r.W <= cutLimit THEN NoCut
    ELSE LET cx == (s[1] + d[1]) \div 2 + 1
             cy0 == d1 + r.Y
             cy == IF cy0 = s[2] \/ cy0 = d[2] THEN d2 + r.Y ELSE cy0
             r1 == rect(r.X, r.Y, cx - r.X, r.H)
             r2 == rect(cx, r.Y, r.W - r1.W, r.H)
         IN  IF rectContains(r1, s)
             THEN [rsrc |-> r1, csrc |-> <<cx - 1, cy>>,
                   rdst |-> r2, cdst |-> <<cx, cy>>, ok |-> TRUE]
             ELSE [rsrc |-> r2, csrc |-> <<cx, cy>>,
                   rdst |-> r1, cdst |-> <<cx - 1, cy>>, ok |-> TRUE]

\* cut that only tries cuth.
cut_HorizontalOnly(r, s, d, h1, h2, v1, v2) == cuth(r, s, d, h1, h2)

cut(r, s, d, h1, h2, v1, v2) ==
    LET hc == cuth(r, s, d, h1, h2)
        vc == cutv(r, s, d, v1, v2)
    IN  IF ~hc.ok THEN vc
        ELSE IF ~vc.ok THEN hc
        ELSE IF r.W > r.H THEN vc
        ELSE hc

\* Every result cut(s, d) can have on r.
cuts(r, s, d) ==
    {cut(r, s, d, h1, h2, v1, v2) :
        h1 \in 0 .. r.W - 1, h2 \in 0 .. r.W - 1,
        v1 \in 0 .. r.H - 1, v2 \in 0 .. r.H - 1}

RECURSIVE findRoute(_, _, _)
findRoute(r, s, d) ==
    UNION {IF ~k.ok
           THEN findNaiveRoute(s, d)
           ELSE {a \o b : a \in findRoute(k.rsrc, s, k.csrc),
                          b \in findRoute(k.rdst, k.cdst, d)}
           : k \in cuts(r, s, d)}

(***************************************************************************)
(* createMaze and buildMaze, step by step.                                 *)
(***************************************************************************)
Range(f) == {f[i] : i \in DOMAIN f}

RECURSIVE sealAll(_, _)
sealAll(rt, i) ==
    IF i > Len(rt) THEN <<>> ELSE sealRoom(rt[i]) \o sealAll(rt, i + 1)

\* floodfill(c, from) up to its loop: sealRoom, removeWallBetween, explored.
floodfillEntry(c, from) ==
    sealRoom(c) \o << <<"removeWallBetween", c, from>>, <<"explored", c, 0>> >>

newPath == [coordinates |-> <<>>, size |-> 0]

NoWalk ==
    [src |-> <<0, 0>>, c |-> <<0, 0>>, dst |-> <<0, 0>>, from |-> <<>>, n |-> 0]

\* ret before any call is served.
NoCall == [op |-> "none", arg |-> <<>>, err |-> "nil", survey |-> NoWalls,
           victory |-> FALSE, error |-> FALSE]

Init ==
    /\ \E d \in Dims : width = d[1] /\ height = d[2]
    /\ rooms = emptyMaze(width, height)
    /\ icarus = <<0, 0>>
    /\ end = <<0, 0>>
    /\ StepsTaken = 0
    /\ pc = "createMaze"
    /\ src = <<0, 0>>
    /\ dst = <<0, 0>>
    /\ route = <<>>
    /\ idx = 0
    /\ bexplored = {}
    /\ order = {}
    /\ stack = <<>>
    /\ ops = <<>>
    /\ scores = <<>>
    /\ ret = NoCall
    /\ explored = <<>>
    /\ path = newPath
    /\ cpc = "idle"
    /\ walk = NoWalk

session == <<icarus, end, StepsTaken>>

client == <<explored, path, cpc, walk>>

rest == <<scores, ret, client>>

build == <<src, dst, route, idx, bexplored, order, stack, ops>>

\* createMaze: the first draws of (sx, sy) and (dx, dy).
Draw ==
    /\ pc = "createMaze"
    /\ src' \in Cells(Width, Height)
    /\ dst' \in Cells(Width, Height)
    /\ pc' = "draw"
    /\ UNCHANGED <<width, height, rooms, session, route, idx, bexplored,
                   order, stack, ops, rest>>

\* createMaze: one iteration of the loop that redraws (dx, dy).
Redraw ==
    /\ pc = "draw"
    /\ dst = src
    /\ dst' \in Cells(Width, Height)
    /\ UNCHANGED <<width, height, rooms, session, pc, src, route, idx,
                   bexplored, order, stack, ops, rest>>

CreateSetStartPoint ==
    /\ pc = "draw"
    /\ dst # src
    /\ LET res == SetStartPoint(Maze, src[1], src[2]) IN
        /\ rooms' = res.m.rooms
        /\ icarus' = res.m.icarus
    /\ pc' = "SetTreasure"
    /\ UNCHANGED <<width, height, end, StepsTaken, build, rest>>

CreateSetTreasure ==
    /\ pc = "SetTreasure"
    /\ LET res == SetTreasure(Maze, dst[1], dst[2]) IN
        /\ rooms' = res.m.rooms
        /\ end' = res.m.end
    /\ pc' = "addBoundary"
    /\ UNCHANGED <<width, height, icarus, StepsTaken, build, rest>>

AddBoundary ==
    /\ pc = "addBoundary"
    /\ rooms' = addBoundary(rooms)
    /\ pc' = "findRoute"
    /\ UNCHANGED <<width, height, session, build, rest>>

FindRoute ==
    /\ pc = "findRoute"
    /\ route' \in findRoute(toRect, src, dst)
    /\ pc' = "paveRoute"
    /\ UNCHANGED <<width, height, rooms, session, src, dst, idx, bexplored,
                   order, stack, ops, rest>>

\* paveRoute: the first loop, sealRoom on every coordinate of the route.
PaveSeal ==
    /\ pc = "paveRoute"
    /\ ops' = sealAll(route, 1)
    /\ idx' = 2
    /\ pc' = "paveOpen"
    /\ UNCHANGED <<width, height, rooms, session, src, dst, route, bexplored,
                   order, stack, rest>>

\* One addWall, removeWallBetween or explored[c] = true of the running
\* sealRoom or floodfill.
WallOp ==
    /\ ops # <<>>
    /\ LET op == Head(ops) IN
        /\ rooms' = CASE op[1] = "addWall" -> addWall(rooms, op[2], op[3])
                      [] op[1] = "removeWallBetween" ->
                            removeWallBetween(rooms, op[2], op[3])
                      [] OTHER -> rooms
        /\ bexplored' = IF op[1] = "explored"
                        THEN bexplored \cup {op[2]} ELSE bexplored
    /\ ops' = Tail(ops)
    /\ UNCHANGED <<width, height, session, pc, src, dst, route, idx, order,
                   stack, rest>>

\* paveRoute: one iteration of the second loop.
PaveOpen ==
    /\ pc = "paveOpen"
    /\ ops = <<>>
    /\ idx <= Len(route)
    /\ rooms' = removeWallBetween(rooms, route[idx], route[idx - 1])
    /\ idx' = idx + 1
    /\ UNCHANGED <<width, height, session, pc, src, dst, route, bexplored,
                   order, stack, ops, rest>>

\* buildMaze: explored is filled with the route and the order is drawn.
\* The permutation is consumed one index at a time, in any order.
StartFlood ==
    /\ pc = "paveOpen"
    /\ ops = <<>>
    /\ idx > Len(route)
    /\ bexplored' = Range(route)
    /\ order' = 1 .. (Len(route) - 1)
    /\ pc' = "floodfill"
    /\ UNCHANGED <<width, height, rooms, session, src, dst, route, idx, stack,
                   ops, rest>>

\* buildMaze: the next index of order; its loop over the neighbors starts.
Seed ==
    /\ pc = "floodfill"
    /\ ops = <<>>
    /\ stack = <<>>
    /\ \E i \in order :
        /\ order' = order \ {i}
        /\ stack' = << [c |-> route[i], k |-> 1] >>
    /\ UNCHANGED <<width, height, rooms, session, pc, src, dst, route, idx,
                   bexplored, ops, rest>>

\* The neighbors of frame f the loop has still to look at and would enter.
Pending(f) ==
    {j \in f.k .. 4 :
        contains(Neighbors(f.c)[j]) /\ Neighbors(f.c)[j] \notin bexplored}

Min(s) == CHOOSE m \in s : \A n \in s : m <= n

\* The loop over c.Neighbors() in buildMaze and in floodfill: it enters
\* floodfill for the next unexplored neighbor inside the maze.
FloodEnter ==
    /\ pc = "floodfill"
    /\ ops = <<>>
    /\ stack # <<>>
    /\ LET f == stack[Len(stack)] IN
        /\ Pending(f) # {}
        /\ LET j == Min(Pending(f))
               nb == Neighbors(f.c)[j]
           IN  /\ ops' = floodfillEntry(nb, f.c)
               /\ stack' = Append([stack EXCEPT ![Len(stack)].k = j + 1],
                                  [c |-> nb, k |-> 1])
    /\ UNCHANGED <<width, height, rooms, session, pc, src, dst, route, idx,
                   bexplored, order, rest>>

\* The loop over c.Neighbors() ends: floodfill returns.
FloodReturn ==
    /\ pc = "floodfill"
    /\ ops = <<>>
    /\ stack # <<>>
    /\ Pending(stack[Len(stack)]) = {}
    /\ stack' = SubSeq(stack, 1, Len(stack) - 1)
    /\ UNCHANGED <<width, height, rooms, session, pc, src, dst, route, idx,
                   bexplored, order, ops, rest>>

\* buildMaze and createMaze return; their locals are gone.
CreateReturn ==
    /\ pc = "floodfill"
    /\ ops = <<>>
    /\ stack = <<>>
    /\ order = {}
    /\ pc' = "built"
    /\ src' = <<0, 0>>
    /\ dst' = <<0, 0>>
    /\ route' = <<>>
    /\ idx' = 0
    /\ bexplored' = {}
    /\ UNCHANGED <<width, height, rooms, session, order, stack, ops, rest>>

Next ==
    \/ Draw
    \/ Redraw
    \/ CreateSetStartPoint
    \/ CreateSetTreasure
    \/ AddBoundary
    \/ FindRoute
    \/ PaveSeal
    \/ WallOp
    \/ PaveOpen
    \/ StartFlood
    \/ Seed
    \/ FloodEnter
    \/ FloodReturn
    \/ CreateReturn

Spec == Init /\ [][Next]_vars

\* paveRoute is run on grids of up to PaveCells rooms.
PaveCells == 16

\* The route planner on its own, entered at pc = start: any grid up to
\* RouteSide by RouteSide as the region, any two coordinates as src and dst.
InitPlan(start) ==
    /\ width \in 1..RouteSide
    /\ height \in 1..RouteSide
    /\ rooms = emptyMaze(width, height)
    /\ icarus = <<0, 0>>
    /\ end = <<0, 0>>
    /\ StepsTaken = 0
    /\ pc = start
    /\ src \in Cells(width, height)
    /\ dst \in Cells(width, height)
    /\ route = <<>>
    /\ idx = 0
    /\ bexplored = {}
    /\ order = {}
    /\ stack = <<>>
    /\ ops = <<>>
    /\ scores = <<>>
    /\ ret = NoCall
    /\ explored = <<>>
    /\ path = newPath
    /\ cpc = "idle"
    /\ walk = NoWalk

InitNaive == InitPlan("findRoute")

InitRoute == InitNaive /\ dst # src

\* buildMaze up to the end of paveRoute, after addBoundary, for any two
\* different coordinates of the grid as src and dst.
InitPave ==
    InitPlan("addBoundary") /\ dst # src /\ width * height <= PaveCells

NextPave == AddBoundary \/ FindRoute \/ PaveSeal \/ WallOp \/ PaveOpen

SpecPave == InitPave /\ [][NextPave]_vars

SpecRoute == InitRoute /\ [][FindRoute]_vars

\* A call of findNaiveRoute(src, dst) on its own.
CallNaive ==
    /\ pc = "findRoute"
    /\ route' \in findNaiveRoute(src, dst)
    /\ pc' = "paveRoute"
    /\ UNCHANGED <<width, height, rooms, session, src, dst, idx, bexplored,
                   order, stack, ops, rest>>

SpecNaive == InitNaive /\ [][CallNaive]_vars

\* createMaze runs on: a step it can take is eventually taken.
SpecBuild == Init /\ [][Next]_vars /\ WF_vars(Next)

(***************************************************************************)
(* The server's handlers on the current maze.                              *)
(***************************************************************************)
MaxSteps == 4
MaxScores == 2
MaxFlags == 4
FlagCells == 4
AttemptCells == 6

Tokens == {"left", "right", "up", "down", "jump"}

\* d2s with the strings of N and S exchanged.
d2s_Swapped(dir) ==
    CASE dir = N -> "down"
      [] dir = S -> "up"
      [] dir = E -> "right"
      [] dir = W -> "left"
      [] OTHER -> ""

d2s(dir) ==
    CASE dir = N -> "up"
      [] dir = S -> "down"
      [] dir = E -> "right"
      [] dir = W -> "left"
      [] OTHER -> ""

\* The handler MoveDirection: the Maze and the scores it leaves, the error
\* of the Move method and the fields of the Reply.
MoveDirection(m, sc, token) ==
    LET mv == CASE token = "left" -> MoveLeft(m)
                [] token = "right" -> MoveRight(m)
                [] token = "down" -> MoveDown(m)
                [] token = "up" -> MoveUp(m)
                [] OTHER -> [m |-> m, err |-> "nil"]
        la == LookAround(mv.m)
    IN  IF mv.err # "nil"
        THEN [m |-> mv.m, scores |-> sc, err |-> mv.err, survey |-> NoWalls,
              victory |-> FALSE, error |-> TRUE]
        ELSE IF la.err = "victory"
        THEN [m |-> mv.m, scores |-> Append(sc, mv.m.StepsTaken),
              err |-> mv.err, survey |-> la.survey,
              victory |-> TRUE, error |-> FALSE]
        ELSE [m |-> mv.m, scores |-> sc, err |-> mv.err, survey |-> la.survey,
              victory |-> FALSE, error |-> la.err # "nil"]

\* A request /move/:direction served by MoveDirection.
Request(token) ==
    LET r == MoveDirection(Maze, scores, token) IN
    /\ icarus' = r.m.icarus
    /\ StepsTaken' = r.m.StepsTaken
    /\ rooms' = r.m.rooms
    /\ end' = r.m.end
    /\ scores' = r.scores
    /\ ret' = [op |-> "MoveDirection", arg |-> token, err |-> r.err,
               survey |-> r.survey, victory |-> r.victory, error |-> r.error]

\* GetStartingPoint after initializeMaze: the reply with the start survey.
Awake ==
    /\ pc = "built"
    /\ LET d == Discover(Maze, Icarus(Maze)[1], Icarus(Maze)[2]) IN
        ret' = [op |-> "awake", arg |-> <<>>, err |-> d.err,
                survey |-> d.survey, victory |-> FALSE, error |-> FALSE]
    /\ pc' = "serving"
    /\ UNCHANGED <<width, height, rooms, session, build, scores, client>>

\* One request /move/:direction served on the current maze.
ServeMove ==
    /\ pc = "serving"
    /\ StepsTaken < MaxSteps
    /\ Len(scores) < MaxScores
    /\ \E token \in Tokens : Request(token)
    /\ UNCHANGED <<width, height, pc, build, client>>

NextSession == Next \/ Awake \/ ServeMove

SpecSession == Init /\ [][NextSession]_vars

\* A call of Discover with any coordinates, around and inside the maze.
CallDiscover ==
    /\ pc = "serving"
    /\ \E x \in -1 .. width, y \in -1 .. height :
        LET d == Discover(Maze, x, y) IN
        ret' = [op |-> "Discover", arg |-> <<x, y>>, err |-> d.err,
                survey |-> d.survey, victory |-> FALSE, error |-> FALSE]
    /\ UNCHANGED <<width, height, rooms, session, pc, build, scores, client>>

NextDiscover == Next \/ Awake \/ CallDiscover

SpecDiscover == Init /\ [][NextDiscover]_vars

Flagged == Cardinality({c \in Grid : rooms[c].Start})
           + Cardinality({c \in Grid : rooms[c].Treasure})

\* A call of SetStartPoint on the maze createMaze returned.
CallSetStartPoint ==
    /\ pc \in {"built", "flags"}
    /\ Flagged < MaxFlags
    /\ \E x \in -1 .. width, y \in -1 .. height :
        LET r == SetStartPoint(Maze, x, y) IN
        /\ rooms' = r.m.rooms
        /\ icarus' = r.m.icarus
        /\ end' = r.m.end
        /\ StepsTaken' = r.m.StepsTaken
        /\ ret' = [op |-> "SetStartPoint", arg |-> <<x, y>>, err |-> r.err,
                   survey |-> NoWalls, victory |-> FALSE, error |-> FALSE]
    /\ pc' = "flags"
    /\ UNCHANGED <<width, height, build, scores, client>>

\* A call of SetTreasure on the maze createMaze returned.
CallSetTreasure ==
    /\ pc \in {"built", "flags"}
    /\ Flagged < MaxFlags
    /\ \E x \in -1 .. width, y \in -1 .. height :
        LET r == SetTreasure(Maze, x, y) IN
        /\ rooms' = r.m.rooms
        /\ icarus' = r.m.icarus
        /\ end' = r.m.end
        /\ StepsTaken' = r.m.StepsTaken
        /\ ret' = [op |-> "SetTreasure", arg |-> <<x, y>>, err |-> r.err,
                   survey |-> NoWalls, victory |-> FALSE, error |-> FALSE]
    /\ pc' = "flags"
    /\ UNCHANGED <<width, height, build, scores, client>>

InitFlags == Init /\ width * height <= FlagCells

NextFlags == Next \/ CallSetStartPoint \/ CallSetTreasure

SpecFlags == InitFlags /\ [][NextFlags]_vars

(***************************************************************************)
(* The client: Move, path, pickNeighbor, goback, solveMaze.                *)
(***************************************************************************)
\* explored[c] and from[c] of a Go map: the zero value for a missing key.
SurveyAt(ex, c) == IF c \in DOMAIN ex THEN ex[c] ELSE NoWalls

FromAt(fr, c) == IF c \in DOMAIN fr THEN fr[c] ELSE 0

\* A map that forgets its other keys when one is set.
MapSet_Forget(f, k, v) == (k :> v)

MapSet(f, k, v) == [x \in DOMAIN f \cup {k} |-> IF x = k THEN v ELSE f[x]]

\* The client's Move on the reply r of the server: the survey and the error.
Move(r) ==
    IF r.victory THEN [survey |-> r.survey, err |-> "victory"]
    ELSE [survey |-> r.survey, err |-> "nil"]

\* A call of the client's Move with any direction string: an unknown one is
\* refused before any request; otherwise the request is served and Move
\* returns what it makes of the reply (ret.error keeps the reply's Error).
CallMove ==
    /\ pc = "serving"
    /\ StepsTaken < MaxSteps
    /\ Len(scores) < MaxScores
    /\ \E direction \in Tokens :
        IF direction \in {"left", "right", "up", "down"}
        THEN LET r == MoveDirection(Maze, scores, direction)
                 mv == Move(r)
             IN  /\ icarus' = r.m.icarus
                 /\ StepsTaken' = r.m.StepsTaken
                 /\ rooms' = r.m.rooms
                 /\ end' = r.m.end
                 /\ scores' = r.scores
                 /\ ret' = [op |-> "Move", arg |-> direction, err |-> mv.err,
                            survey |-> mv.survey, victory |-> r.victory,
                            error |-> r.error]
        ELSE /\ ret' = [op |-> "Move", arg |-> direction,
                        err |-> "invalid direction", survey |-> NoWalls,
                        victory |-> FALSE, error |-> FALSE]
             /\ UNCHANGED <<rooms, session, scores>>
    /\ UNCHANGED <<width, height, pc, build, client>>

NextMove == Next \/ Awake \/ CallMove

SpecMove == Init /\ [][NextMove]_vars

\* push that always appends, also below the capacity.
push_Append(p, coordinate) ==
    [coordinates |-> Append(p.coordinates, coordinate), size |-> p.size + 1]

push(p, coordinate) ==
    IF p.size >= Len(p.coordinates)
    THEN [coordinates |-> Append(p.coordinates, coordinate),
          size |-> p.size + 1]
    ELSE [coordinates |-> [p.coordinates EXCEPT ![p.size + 1] = coordinate],
          size |-> p.size + 1]

top(p) == IF p.size = 0 THEN <<0, 0>> ELSE p.coordinates[p.size]

\* pickNeighbor without the check of explored.
pickNeighbor_NoExplored(coordinate, ex) ==
    {dir \in Range(allDirections) :
        ~HasWall(SurveyAt(ex, coordinate), dir)}

\* pickNeighbor: every direction the permutation can put first among those
\* without a wall that lead to an unexplored coordinate; none: not found.
pickNeighbor(coordinate, ex) ==
    {dir \in Range(allDirections) :
        /\ ~HasWall(SurveyAt(ex, coordinate), dir)
        /\ Neighbor(coordinate, dir) \notin DOMAIN ex}

\* path.backtrack: the loop from 0-based index i downward.
RECURSIVE backtrackFrom(_, _, _)
backtrackFrom(p, ex, i) ==
    IF i < 0 THEN [p |-> p, c |-> <<0, 0>>, err |-> "backtrack"]
    ELSE IF pickNeighbor(p.coordinates[i + 1], ex) # {}
    THEN [p |-> [p EXCEPT !.size = i + 1], c |-> p.coordinates[i + 1],
          err |-> "nil"]
    ELSE backtrackFrom(p, ex, i - 1)

\* path.backtrack looking at the origin only.
backtrack_Origin(p, ex) == backtrackFrom(p, ex, 0)

backtrack(p, ex) == backtrackFrom(p, ex, p.size - 2)

\* goback's loop over allDirections comparing nb with c instead of src.
RECURSIVE gobackScan_NoSrc(_, _, _, _, _, _)
gobackScan_NoSrc(ex, s, c, k, q, fr) ==
    IF k > Len(allDirections)
    THEN [queue |-> q, from |-> fr, found |-> FALSE, overflow |-> FALSE]
    ELSE LET dir == allDirections[k]
             nb == Neighbor(c, dir)
         IN  IF \/ HasWall(SurveyAt(ex, c), dir)
                \/ nb \notin DOMAIN ex
                \/ nb \in DOMAIN fr
             THEN gobackScan_NoSrc(ex, s, c, k + 1, q, fr)
             ELSE IF Len(q) >= Cardinality(DOMAIN ex)
             THEN [queue |-> q, from |-> fr, found |-> FALSE,
                   overflow |-> TRUE]
             ELSE IF nb = c
             THEN [queue |-> Append(q, nb),
                   from |-> MapSet(fr, nb, ReverseDirection(dir)),
                   found |-> TRUE, overflow |-> FALSE]
             ELSE gobackScan_NoSrc(ex, s, c, k + 1, Append(q, nb),
                                   MapSet(fr, nb, ReverseDirection(dir)))

\* goback's loop over allDirections without the check that nb is explored.
RECURSIVE gobackScan_Unexplored(_, _, _, _, _, _)
gobackScan_Unexplored(ex, s, c, k, q, fr) ==
    IF k > Len(allDirections)
    THEN [queue |-> q, from |-> fr, found |-> FALSE, overflow |-> FALSE]
    ELSE LET dir == allDirections[k]
             nb == Neighbor(c, dir)
         IN  IF \/ HasWall(SurveyAt(ex, c), dir)
                \/ nb \in DOMAIN fr
             THEN gobackScan_Unexplored(ex, s, c, k + 1, q, fr)
             ELSE IF Len(q) >= Cardinality(DOMAIN ex)
             THEN [queue |-> q, from |-> fr, found |-> FALSE,
                   overflow |-> TRUE]
             ELSE IF nb = s
             THEN [queue |-> Append(q, nb),
                   from |-> MapSet(fr, nb, ReverseDirection(dir)),
                   found |-> TRUE, overflow |-> FALSE]
             ELSE gobackScan_Unexplored(ex, s, c, k + 1, Append(q, nb),
                                        MapSet(fr, nb, ReverseDirection(dir)))

\* goback: the loop over allDirections at queue entry c, from index k; the
\* queue holds len(explored) entries and a write past its end panics.
RECURSIVE gobackScan(_, _, _, _, _, _)
gobackScan(ex, s, c, k, q, fr) ==
    IF k > Len(allDirections)
    THEN [queue |-> q, from |-> fr, found |-> FALSE, overflow |-> FALSE]
    ELSE LET dir == allDirections[k]
             nb == Neighbor(c, dir)
         IN  IF \/ HasWall(SurveyAt(ex, c), dir)
                \/ nb \notin DOMAIN ex
                \/ nb \in DOMAIN fr
             THEN gobackScan(ex, s, c, k + 1, q, fr)
             ELSE IF Len(q) >= Cardinality(DOMAIN ex)
             THEN [queue |-> q, from |-> fr, found |-> FALSE,
                   overflow |-> TRUE]
             ELSE IF nb = s
             THEN [queue |-> Append(q, nb),
                   from |-> MapSet(fr, nb, ReverseDirection(dir)),
                   found |-> TRUE, overflow |-> FALSE]
             ELSE gobackScan(ex, s, c, k + 1, Append(q, nb),
                             MapSet(fr, nb, ReverseDirection(dir)))

\* goback: the breadth-first loop from queue index i (1-based).
RECURSIVE gobackSearch(_, _, _, _, _)
gobackSearch(ex, s, i, q, fr) ==
    IF i > Len(q)
    THEN [queue |-> q, from |-> fr, found |-> FALSE, overflow |-> FALSE]
    ELSE LET r == gobackScan(ex, s, q[i], 1, q, fr) IN
         IF r.found \/ r.overflow THEN r
         ELSE gobackSearch(ex, s, i + 1, r.queue, r.from)

\* goback with the search seeded with src and looking for dst.
goback_FromSrc(s, d, ex) == gobackSearch(ex, d, 1, <<s>>, (s :> 0))

\* goback up to its walk: the search seeded with dst.
goback(s, d, ex) == gobackSearch(ex, s, 1, <<d>>, (d :> 0))

\* solveMaze up to its loop: awake() has returned the start survey.
SolveStart ==
    /\ cpc = "idle"
    /\ pc = "serving"
    /\ ret.op = "awake"
    /\ explored' = (<<0, 0>> :> ret.survey)
    /\ path' = push(newPath, <<0, 0>>)
    /\ cpc' = "loop"
    /\ UNCHANGED <<width, height, rooms, session, pc, build, scores, ret, walk>>

\* solveMaze: an iteration in which pickNeighbor finds a neighbor.
SolveStep ==
    /\ cpc = "loop"
    /\ \E dir \in pickNeighbor(top(path), explored) :
        LET next == Neighbor(top(path), dir)
            mv == Move(ret')
        IN  /\ Request(d2s(dir))
            /\ IF mv.err = "victory"
               THEN cpc' = "returned" /\ UNCHANGED <<path, explored>>
               ELSE /\ path' = push(path, next)
                    /\ explored' = MapSet(explored, next, mv.survey)
                    /\ cpc' = "loop"
    /\ UNCHANGED <<width, height, pc, build, walk>>

\* solveMaze: an iteration at a dead end, path.backtrack and goback's search.
SolveBacktrack ==
    /\ cpc = "loop"
    /\ pickNeighbor(top(path), explored) = {}
    /\ LET b == backtrack(path, explored)
           g == goback(top(path), b.c, explored)
       IN  IF b.err # "nil" \/ ~g.found
           THEN cpc' = "panic" /\ UNCHANGED <<path, walk>>
           ELSE /\ path' = b.p
                /\ walk' = [src |-> top(path), c |-> top(path), dst |-> b.c,
                            from |-> g.from,
                            n |-> 0]
                /\ cpc' = "goback"
    /\ UNCHANGED <<width, height, rooms, session, pc, build, scores, ret,
                   explored>>

\* goback: one iteration of the walk from src to dst; Move sends no request
\* for a string that is not a direction, and goback ignores what it returns.
GobackMove ==
    /\ cpc \in {"goback", "call"}
    /\ walk.c # walk.dst
    /\ IF d2s(FromAt(walk.from, walk.c)) \in {"left", "right", "up", "down"}
       THEN Request(d2s(FromAt(walk.from, walk.c)))
       ELSE UNCHANGED <<rooms, session, scores, ret>>
    /\ walk' = [walk EXCEPT !.c = Neighbor(walk.c, FromAt(walk.from, walk.c)),
                            !.n = @ + 1]
    /\ UNCHANGED <<width, height, pc, build, explored, path, cpc>>

\* goback returns the number of moves.
GobackReturn ==
    /\ cpc = "goback"
    /\ walk.c = walk.dst
    /\ walk' = NoWalk
    /\ cpc' = "loop"
    /\ UNCHANGED <<width, height, rooms, session, pc, build, scores, ret,
                   explored, path>>

\* A call of goback(src, dst, explored) on its own, in a state of the attempt
\* between two iterations of the loop: src is where the occupant stands, dst
\* any explored coordinate. The search runs; without a way back it panics.
CallGoback ==
    /\ cpc = "loop"
    /\ \E d \in DOMAIN explored :
        LET g == goback(top(path), d, explored) IN
        /\ walk' = [src |-> top(path), c |-> top(path), dst |-> d,
                    from |-> g.from, n |-> 0]
        /\ cpc' = IF g.found THEN "call" ELSE "panic"
    /\ UNCHANGED <<width, height, rooms, session, pc, build, scores, ret,
                   explored, path>>

\* The call of goback returns walk.n, the number of moves.
CallReturn ==
    /\ cpc = "call"
    /\ walk.c = walk.dst
    /\ cpc' = "called"
    /\ UNCHANGED <<width, height, rooms, session, pc, build, scores, ret,
                   explored, path, walk>>

\* The steps of a solve attempt once createMaze has returned.
Solve ==
    \/ Awake
    \/ SolveStart
    \/ SolveStep
    \/ SolveBacktrack
    \/ GobackMove
    \/ GobackReturn

NextSolve == Next \/ Solve

\* The client and the server run one request at a time and never pause:
\* once the maze is built, the attempt goes on while it has a step to take.
SpecSolve == Init /\ [][NextSolve]_vars /\ WF_vars(Solve)

\* RunIcarus calls solveMaze again after it has returned: the locals of the
\* attempt are new, and awake will have initializeMaze build a new maze.
NewAttempt ==
    /\ cpc = "returned"
    /\ Len(scores) < MaxScores
    /\ rooms' = emptyMaze(width, height)
    /\ icarus' = <<0, 0>>
    /\ end' = <<0, 0>>
    /\ StepsTaken' = 0
    /\ pc' = "createMaze"
    /\ ret' = NoCall
    /\ explored' = <<>>
    /\ path' = newPath
    /\ walk' = NoWalk
    /\ cpc' = "idle"
    /\ UNCHANGED <<width, height, build, scores>>

InitAttempts == Init /\ width * height <= AttemptCells

NextAttempts == NextSolve \/ NewAttempt

SpecAttempts == InitAttempts /\ [][NextAttempts]_vars

NextGoback == NextSolve \/ CallGoback \/ CallReturn

SpecGoback == Init /\ [][NextGoback]_vars

(***************************************************************************)
(* The open-passage graph of the maze.                                     *)
(***************************************************************************)
Dirs == {N, S, E, W}

\* The room at c has no wall toward its neighbor in direction dir.
OpenSide(c, dir) == ~HasWall(rooms[c].Walls, dir)

\* Adjacent rooms (as unordered pairs) with no wall on either side.
OpenPairs ==
    {{e[1], Neighbor(e[1], e[2])} :
        e \in {f \in Grid \X {S, E} :
                /\ Neighbor(f[1], f[2]) \in Grid
                /\ OpenSide(f[1], f[2])
                /\ OpenSide(Neighbor(f[1], f[2]), ReverseDirection(f[2]))}}

RECURSIVE Reach(_)
Reach(seen) ==
    LET more == {n \in Grid \ seen : \E c \in seen : {c, n} \in OpenPairs}
    IN  IF more = {} THEN seen ELSE Reach(seen \cup more)

Connected == Reach({<<0, 0>>}) = Grid

IsSpanningTree == Cardinality(OpenPairs) = width * height - 1 /\ Connected

(***************************************************************************)
(* Properties of the built maze.                                           *)
(***************************************************************************)
\* C1: the grid createMaze returns has exactly W*H - 1 open adjacent room
\* pairs and its open-passage graph is connected (a spanning tree), for
\* every grid size, one room wide or high included.
C1_PerfectMaze == pc = "built" => IsSpanningTree

\* C4: wall symmetry holds after addBoundary and after every addWall,
\* removeWallBetween and floodfill step: adjacent rooms A and B agree on the
\* wall between them.
C4_WallSymmetry ==
    \A c \in Grid : \A dir \in Dirs :
        Neighbor(c, dir) \in Grid =>
            (HasWall(rooms[c].Walls, dir) <=>
             HasWall(rooms[Neighbor(c, dir)].Walls, ReverseDirection(dir)))

\* A floodfill has sealed a room and removed the wall toward the room it came
\* from, beside a pair of rooms that is walled on both sides.
C4_Witness ==
    /\ pc = "floodfill"
    /\ Len(ops) = 1
    /\ OpenPairs # {}
    /\ \E c \in Grid : \E dir \in Dirs :
        /\ Neighbor(c, dir) \in Grid
        /\ HasWall(rooms[c].Walls, dir)
        /\ HasWall(rooms[Neighbor(c, dir)].Walls, ReverseDirection(dir))

BoundarySealed ==
    /\ \A x \in 0 .. width - 1 :
        rooms[<<x, 0>>].Walls.Top /\ rooms[<<x, height - 1>>].Walls.Bottom
    /\ \A y \in 0 .. height - 1 :
        rooms[<<0, y>>].Walls.Left /\ rooms[<<width - 1, y>>].Walls.Right

\* C5: from addBoundary on, through every later building step and in the
\* maze createMaze returns, every outer wall of the grid is present.
C5_BoundarySealed ==
    pc \notin {"createMaze", "draw", "SetTreasure", "addBoundary"}
        => BoundarySealed

\* A maze is returned in which paveRoute and floodfill opened passages along
\* the rooms of the outer rows and columns.
C5_Witness ==
    /\ pc = "built"
    /\ width > 1
    /\ height > 1
    /\ Cardinality(OpenPairs) = width * height - 1

(***************************************************************************)
(* Properties of the session: flags, movement, Discover.                   *)
(***************************************************************************)
NoRoomBothFlags == \A c \in Grid : ~(rooms[c].Start /\ rooms[c].Treasure)

\* The maze as createMaze returns it: start and treasure are two rooms.
ReturnedDistinct ==
    pc = "built" =>
        /\ icarus # end
        /\ \A c \in Grid : rooms[c].Start <=> c = icarus
        /\ \A c \in Grid : rooms[c].Treasure <=> c = end

\* A step of SetStartPoint or SetTreasure: a call that fails changes nothing,
\* and a call for a room that carries the other flag fails.
SetCallStep ==
    /\ (ret'.op \in {"SetStartPoint", "SetTreasure"} /\ ret'.err # "nil")
        => UNCHANGED <<rooms, icarus, end>>
    /\ (ret'.op = "SetStartPoint" /\ ret'.arg \in Grid
            /\ rooms[ret'.arg].Treasure)
        => (ret'.err # "nil" /\ UNCHANGED <<rooms, icarus, end>>)
    /\ (ret'.op = "SetTreasure" /\ ret'.arg \in Grid /\ rooms[ret'.arg].Start)
        => (ret'.err # "nil" /\ UNCHANGED <<rooms, icarus, end>>)

\* C6: in the maze createMaze returns the start differs from the treasure,
\* and after any sequence of SetStartPoint and SetTreasure calls no room has
\* both flags; a call that would set the second flag fails, changing nothing.
C6_Flags ==
    /\ [](ReturnedDistinct /\ NoRoomBothFlags)
    /\ [][SetCallStep]_vars

\* SetStartPoint was refused on a treasure room after another room had been
\* made a second start.
C6_Witness ==
    /\ pc = "flags"
    /\ ret.op = "SetStartPoint"
    /\ ret.err = "treasure"
    /\ Cardinality({c \in Grid : rooms[c].Start}) = 2

\* The step serves a move request with the token of direction dir.
MoveServed(dir) ==
    pc = "serving" /\ ret'.op = "MoveDirection" /\ ret'.arg = d2s(dir)

\* C7: the occupant stays inside the grid; it only changes to an adjacent
\* room through a side of the departed room without a wall; StepsTaken
\* grows by exactly 1 on an accepted move and by 0 on a rejected one.
C7_Movement ==
    [][pc = "serving" =>
        /\ icarus \in Grid /\ icarus' \in Grid
        /\ icarus' # icarus =>
            \E dir \in Dirs :
                /\ icarus' = Neighbor(icarus, dir)
                /\ ~HasWall(rooms[icarus].Walls, dir)
        /\ StepsTaken' >= StepsTaken
        /\ \A dir \in Dirs : MoveServed(dir) =>
            StepsTaken' = StepsTaken + (IF ret'.err = "nil" THEN 1 ELSE 0)
      ]_vars

\* A move was accepted and a later one rejected for a wall.
C7_Witness ==
    /\ pc = "serving"
    /\ StepsTaken >= 2
    /\ ret.op = "MoveDirection"
    /\ ret.err = "wall"

\* C8: a move in a direction with a wall, or toward a room outside the grid,
\* is answered with an error and leaves occupant, StepsTaken and walls as
\* they were; so does every move rejected for a wall or for the bounds.
C8_RejectedMove ==
    [][/\ \A dir \in Dirs :
            (MoveServed(dir) /\ (HasWall(rooms[icarus].Walls, dir)
                                 \/ Neighbor(icarus, dir) \notin Grid))
            => (ret'.err # "nil" /\ ret'.error
                /\ UNCHANGED <<icarus, StepsTaken, rooms>>)
       /\ (pc = "serving" /\ ret'.op = "MoveDirection"
            /\ ret'.err \in {"wall", "bounds"})
            => (ret'.error /\ UNCHANGED <<icarus, StepsTaken, rooms>>)
      ]_vars

\* A move to the right was rejected for a wall after an accepted move.
C8_Witness ==
    /\ pc = "serving"
    /\ StepsTaken >= 1
    /\ ret.op = "MoveDirection"
    /\ ret.arg = "right"
    /\ ret.err = "wall"
    /\ ret.error

\* C9 as stated: with no wall in direction d and the neighbor inside the
\* grid, move(d) succeeds, also when the occupant stands on the treasure.
C9_MoveSucceeds ==
    [][\A dir \in Dirs :
            (MoveServed(dir) /\ ~HasWall(rooms[icarus].Walls, dir)
                /\ Neighbor(icarus, dir) \in Grid)
            => (/\ ret'.err = "nil"
                /\ icarus' = Neighbor(icarus, dir)
                /\ StepsTaken' = StepsTaken + 1)
      ]_vars

\* C9 amended: with no wall in direction d, the neighbor inside the grid and
\* the occupant not on the treasure, move(d) succeeds: the occupant becomes
\* that neighbor and StepsTaken grows by 1. On the treasure every move
\* returns ErrVictory (LookAround runs first) and changes nothing.
C9_MoveSucceedsOffTreasure ==
    [][\A dir \in Dirs :
          /\ (MoveServed(dir) /\ ~HasWall(rooms[icarus].Walls, dir)
                /\ Neighbor(icarus, dir) \in Grid /\ icarus # end)
                => (/\ ret'.err = "nil"
                    /\ icarus' = Neighbor(icarus, dir)
                    /\ StepsTaken' = StepsTaken + 1)
          /\ (MoveServed(dir) /\ icarus = end)
                => (ret'.err = "victory"
                    /\ UNCHANGED <<icarus, StepsTaken, rooms>>)
      ]_vars

\* A move was tried from the treasure room, reached by accepted moves, and
\* refused with ErrVictory.
C9_Witness ==
    /\ pc = "serving"
    /\ StepsTaken >= 1
    /\ icarus = end
    /\ ret.op = "MoveDirection"
    /\ ret.arg = "down"
    /\ ret.err = "victory"

\* C10: Discover(x, y) returns the walls of room (x, y) inside the grid and
\* fails with a non-nil error for every coordinate outside the grid.
C10_Discover ==
    ret.op = "Discover" =>
        IF ret.arg \in Grid
        THEN ret.err = "nil" /\ ret.survey = rooms[ret.arg].Walls
        ELSE ret.err # "nil"

(***************************************************************************)
(* Properties of a solve attempt.                                          *)
(***************************************************************************)
\* The rooms of the maze the explorer has not recorded yet.
Remaining == width * height - Cardinality(DOMAIN explored)

\* The stage of the attempt within one iteration of solveMaze's loop.
Stage ==
    CASE cpc = "goback" -> 2
      [] cpc \in {"idle", "loop"} -> 1
      [] OTHER -> 0

\* A natural number that every step of the attempt lowers: the rooms left to
\* record, then the size of the path, then the stage, then the moves goback
\* may still make; a built maze not yet answered by awake counts one more.
SolveRank ==
    ((Remaining * (width * height + 1) + path.size) * 3 + Stage)
        * (width * height + 2)
    + (width * height - walk.n) + (IF pc = "built" THEN 1 ELSE 0)

\* A step taken once the maze is built lowers the rank.
RankLowered == pc \in {"built", "serving"} => SolveRank' < SolveRank

\* Until it has returned the attempt has a step to take: it has not panicked
\* (the loop then has an iteration to run), before the loop the maze is
\* either waiting for awake or has answered it, and goback's walk stands on
\* a coordinate its search gave a direction to.
HasStep ==
    /\ cpc # "panic"
    /\ cpc = "idle" => (pc = "built" \/ ret.op = "awake")
    /\ cpc = "goback" => (walk.c = walk.dst \/ walk.c \in DOMAIN walk.from)

\* C2: for every maze createMaze produces, solveMaze eventually returns; it
\* returns only on the Victory reply, and the occupant is then on the
\* treasure. Eventually: the attempt always has a step to take until it has
\* returned, and every step lowers SolveRank, which never falls below 0.
C2_SolveReturnsOnVictory ==
    /\ [](cpc = "returned" => (ret.victory /\ icarus = end))
    /\ []((pc \in {"built", "serving"} /\ cpc # "returned") => HasStep)
    /\ [](SolveRank >= 0 /\ Remaining >= 0 /\ walk.n <= width * height)
    /\ [][RankLowered]_vars

\* solveMaze has returned after an attempt in which it went back from a dead
\* end at least once.
C2_Witness ==
    /\ cpc = "returned"
    /\ ret.victory
    /\ path.size < Len(path.coordinates)
    /\ StepsTaken >= 3

\* The room createMaze made the start.
StartRoom == CHOOSE c \in Grid : rooms[c].Start

\* The rooms the explorer has recorded, as coordinates of the maze.
Entered == {<<StartRoom[1] + c[1], StartRoom[2] + c[2]>> : c \in DOMAIN explored}

\* C3: in a solve attempt StepsTaken (forward and goback moves) never exceeds
\* 2*W*H, and no forward move enters a room that was entered before (the
\* start room included).
C3_BoundedSteps ==
    /\ [](StepsTaken <= 2 * width * height)
    /\ [][(cpc = "loop" /\ icarus' # icarus) => icarus' \notin Entered]_vars

\* solveMaze has returned after goback moves were made: more steps were
\* taken than rooms recorded.
C3_Witness ==
    /\ cpc = "returned"
    /\ IsSpanningTree
    /\ StepsTaken > Cardinality(DOMAIN explored)

(***************************************************************************)
(* Properties of malformed and rejected requests.                          *)
(***************************************************************************)
\* C11: a move request whose token is none of up, down, left, right is
\* answered as an error (no ok reply, no victory reply) and changes nothing:
\* occupant, StepsTaken, rooms and scores stay, also on the treasure.
C11_InvalidTokenRejected ==
    [][(pc = "serving" /\ ret'.op = "MoveDirection"
            /\ ret'.arg \notin {"up", "down", "left", "right"})
        => (/\ ret'.error
            /\ ~ret'.victory
            /\ UNCHANGED <<icarus, StepsTaken, rooms, scores>>)
      ]_vars

\* C12: when the session rejects a move (for a wall or for the bounds), the
\* client's Move returns a non-nil error other than ErrVictory, never nil.
C12_RejectionReported ==
    (ret.op = "Move" /\ ret.error) => ret.err \notin {"nil", "victory"}

(***************************************************************************)
(* Properties of goback and path.backtrack.                                *)
(***************************************************************************)
\* The room of the maze at the explorer's coordinate c (the origin is the
\* start room).
Abs(c) == <<StartRoom[1] + c[1], StartRoom[2] + c[2]>>

\* Explored memory ex records an open passage from a in direction dir: both
\* rooms are explored and neither survey has a wall on the shared side.
ExploredOpen(ex, a, dir) ==
    /\ a \in DOMAIN ex
    /\ Neighbor(a, dir) \in DOMAIN ex
    /\ ~HasWall(ex[a], dir)
    /\ ~HasWall(ex[Neighbor(a, dir)], ReverseDirection(dir))

\* The length of a shortest path to d through passages recorded open, from
\* the coordinates at distance k (frontier); -1 when there is none.
RECURSIVE DistWithin(_, _, _, _, _)
DistWithin(ex, frontier, seen, d, k) ==
    IF d \in frontier THEN k
    ELSE LET nxt == {Neighbor(a[1], a[2]) :
                        a \in {b \in frontier \X Dirs :
                                  ExploredOpen(ex, b[1], b[2])}} \ seen
         IN  IF nxt = {} THEN 0 - 1
             ELSE DistWithin(ex, nxt, seen \cup nxt, d, k + 1)

Distance(ex, s, d) == DistWithin(ex, {s}, {s}, d, 0)

\* goback has panicked: its search ended without reaching src.
GobackPanicked == cpc = "panic" /\ walk.from # <<>>

\* A move of goback's walk crosses a passage recorded open between two
\* explored rooms, is accepted, takes the occupant one step closer to dst
\* and leaves explored memory and the active path alone.
GobackStep ==
    (cpc \in {"goback", "call"} /\ walk'.n = walk.n + 1) =>
        LET dir == FromAt(walk.from, walk.c) IN
        /\ dir \in Dirs
        /\ ExploredOpen(explored, walk.c, dir)
        /\ ret'.op = "MoveDirection" /\ ret'.arg = d2s(dir)
        /\ ret'.err = "nil" /\ ~ret'.error
        /\ icarus = Abs(walk.c) /\ icarus' = Abs(walk'.c)
        /\ Distance(explored, walk'.c, walk.dst)
            = Distance(explored, walk.c, walk.dst) - 1
        /\ UNCHANGED <<explored, path>>

\* When goback returns the occupant is at dst and the number returned is the
\* length of a shortest path from src to dst.
GobackReturned ==
    (cpc = "called" \/ (cpc = "goback" /\ walk.c = walk.dst)) =>
        /\ icarus = Abs(walk.dst)
        /\ walk.n = Distance(explored, walk.src, walk.dst)

\* goback's search and its return change neither explored memory nor path.
GobackKeeps ==
    ((cpc = "loop" /\ cpc' \in {"call", "panic"})
        \/ (cpc \in {"goback", "call"} /\ cpc' \in {"loop", "called"}))
    => UNCHANGED <<explored, path>>

\* C13 as stated: for every explored memory and every connected src, dst in
\* it, also src = dst, goback walks a shortest path of recorded passages to
\* dst and returns its length, leaving explored memory and path alone.
C13_Goback ==
    /\ [](GobackReturned)
    /\ [](GobackPanicked => Distance(explored, walk.src, walk.dst) < 0)
    /\ [][GobackStep /\ GobackKeeps]_vars

\* C13 amended: the same for src # dst; goback(c, c) panics, its search
\* never meets src because dst is marked searched from the start.
C13_GobackDistinct ==
    /\ [](GobackReturned)
    /\ [](GobackPanicked =>
            (Distance(explored, walk.src, walk.dst) < 0
                \/ walk.src = walk.dst))
    /\ [][GobackStep /\ GobackKeeps]_vars
    /\ [][(cpc = "loop" /\ walk'.from # <<>> /\ walk'.src = walk'.dst)
            => cpc' = "panic"]_vars

\* goback has returned from a walk of three moves or more to a coordinate
\* that was no longer on the active path.
C13_Witness ==
    /\ cpc = "called"
    /\ walk.n >= 3
    /\ walk.n = Distance(explored, walk.src, walk.dst)
    /\ \A i \in 1..path.size : path.coordinates[i] # walk.dst

\* The 1-based positions below the top of the active path whose recorded
\* survey has an unwalled direction toward an unexplored coordinate.
OpenBelowTop ==
    {i \in 1..(path.size - 1) :
        \E dir \in Dirs :
            /\ ~HasWall(explored[path.coordinates[i]], dir)
            /\ Neighbor(path.coordinates[i], dir) \notin DOMAIN explored}

\* An iteration at a dead end that goes on to goback: the path is cut to the
\* highest position of OpenBelowTop, which is where goback is sent; nothing
\* else of the path and nothing of explored memory changes.
BacktrackStep ==
    (cpc = "loop" /\ cpc' = "goback") =>
        /\ OpenBelowTop # {}
        /\ \A i \in OpenBelowTop : i <= path'.size
        /\ path'.size \in OpenBelowTop
        /\ path'.coordinates = path.coordinates
        /\ walk'.src = top(path)
        /\ walk'.dst = path.coordinates[path'.size]
        /\ walk'.dst = top(path')
        /\ explored' = explored

\* C14: at a dead end path.backtrack selects the entry with the largest
\* index below the top that has an unwalled direction to an unexplored
\* coordinate and makes it the new top; once goback has run the occupant
\* stands on it; explored memory keeps the discarded entries.
C14_Backtrack ==
    /\ [][BacktrackStep]_vars
    /\ [][(cpc = "goback" /\ cpc' = "loop") =>
            (icarus' = Abs(top(path')) /\ UNCHANGED <<path, explored>>)]_vars
    /\ [](cpc = "loop" => icarus = Abs(top(path)))

\* goback has returned to an entry two or more below the old top while the
\* origin, lower on the path, still has an opening of its own.
C14_Witness ==
    /\ cpc = "loop"
    /\ ret.op = "MoveDirection"
    /\ path.size >= 2
    /\ path.size + 2 <= Len(path.coordinates)
    /\ 1 \in OpenBelowTop
    /\ icarus = Abs(top(path))
    /\ pickNeighbor(top(path), explored) # {}
    /\ \A i \in (path.size + 1)..Len(path.coordinates) :
            path.coordinates[i] \in DOMAIN explored

(***************************************************************************)
(* Properties of explored memory over the attempts of RunIcarus.           *)
(***************************************************************************)
\* A step taken during an attempt keeps every recorded survey; a step that
\* records one records it for the new top of the path, which was unexplored.
ExploredGrows ==
    cpc \in {"loop", "goback"} =>
        /\ \A c \in DOMAIN explored :
                c \in DOMAIN explored' /\ explored'[c] = explored[c]
        /\ explored' # explored =>
            /\ DOMAIN explored' = DOMAIN explored \cup {top(path')}
            /\ top(path') \notin DOMAIN explored

\* C15: during one solve attempt the keys of explored memory only grow and
\* no survey is removed or overwritten, by backtrack and goback neither;
\* pickNeighbor never chooses an explored coordinate; each attempt starts
\* with an explored memory that holds only the origin.
C15_ExploredMonotone ==
    /\ [][ExploredGrows]_vars
    /\ [](cpc = "loop" =>
            \A dir \in pickNeighbor(top(path), explored) :
                Neighbor(top(path), dir) \notin DOMAIN explored)
    /\ [][(cpc = "idle" /\ cpc' = "loop") =>
            DOMAIN explored' = {<<0, 0>>}]_vars

\* A second attempt is at a forward step after a backtrack of its own.
C15_Witness ==
    /\ Len(scores) = 1
    /\ cpc = "loop"
    /\ Cardinality(DOMAIN explored) >= 4
    /\ path.size < Len(path.coordinates)
    /\ pickNeighbor(top(path), explored) # {}

(***************************************************************************)
(* Properties of the moves of a solve attempt.                             *)
(***************************************************************************)
\* The step issues a move of the explorer: a forward step of the loop (it
\* goes on with the loop or returns) or a step of goback's walk.
MoveIssued ==
    \/ cpc = "loop" /\ cpc' \in {"loop", "returned"} /\ vars' # vars
    \/ cpc = "goback" /\ walk'.n = walk.n + 1

\* C16: every move the explorer issues in a solve attempt, forward or in
\* goback, is accepted by the session: no error for a wall, for the bounds
\* or for victory; the occupant moves and StepsTaken grows by 1.
C16_MovesAccepted ==
    [][MoveIssued =>
        /\ ret'.op = "MoveDirection"
        /\ ret'.err = "nil"
        /\ ~ret'.error
        /\ icarus' # icarus
        /\ StepsTaken' = StepsTaken + 1
      ]_vars

\* goback is two moves into its walk after three forward moves or more, and
\* the session accepted the last one.
C16_Witness ==
    /\ cpc = "goback"
    /\ walk.n >= 2
    /\ StepsTaken >= 5
    /\ ret.op = "MoveDirection"
    /\ ret.err = "nil"
    /\ ~ret.error

\* The top of the active path is a dead end: pickNeighbor finds nothing.
DeadEnd == cpc = "loop" /\ pickNeighbor(top(path), explored) = {}

\* C17: in a solve attempt the explorer never panics: at every dead end the
\* path holds an entry below the top with an unexplored opening (so it never
\* holds only the origin there), path.backtrack returns no error and
\* goback's search ends with found true.
C17_NoFatalState ==
    /\ cpc # "panic"
    /\ DeadEnd =>
        /\ path.size >= 2
        /\ OpenBelowTop # {}
        /\ backtrack(path, explored).err = "nil"
        /\ goback(top(path), backtrack(path, explored).c, explored).found

\* The explorer is at a dead end for the second time, with the origin the
\* only entry left below the top.
C17_Witness ==
    /\ DeadEnd
    /\ path.size = 2
    /\ Len(path.coordinates) >= 3
    /\ backtrack(path, explored).c = <<0, 0>>
    /\ goback(top(path), <<0, 0>>, explored).found

(***************************************************************************)
(* Properties of particular grids.                                         *)
(***************************************************************************)
\* The grid of width 1 and height 2 as createMaze returned it, with the
\* start at (0,0) and the treasure at (0,1).
OneByTwo ==
    /\ width = 1 /\ height = 2
    /\ pc \in {"built", "serving"}
    /\ rooms[<<0, 0>>].Start
    /\ rooms[<<0, 1>>].Treasure

\* C18: on the 1x2 grid with start (0,0) and treasure (0,1) the wall between
\* the two rooms is absent on both sides and every outer wall is present;
\* the explorer issues exactly one move, down, receives Victory, and
\* StepsTaken is 1.
C18_OneByTwo ==
    /\ [](OneByTwo =>
            /\ rooms[<<0, 0>>].Walls =
                [Top |-> TRUE, Right |-> TRUE, Bottom |-> FALSE, Left |-> TRUE]
            /\ rooms[<<0, 1>>].Walls =
                [Top |-> FALSE, Right |-> TRUE, Bottom |-> TRUE, Left |-> TRUE]
            /\ cpc \in {"idle", "loop", "returned"}
            /\ cpc # "returned" => (StepsTaken = 0 /\ scores = <<>>)
            /\ cpc = "returned" =>
                /\ StepsTaken = 1
                /\ scores = <<1>>
                /\ ret.op = "MoveDirection" /\ ret.arg = "down"
                /\ ret.victory /\ ~ret.error)
    /\ [][(OneByTwo /\ MoveIssued) =>
            (StepsTaken = 0 /\ ret'.arg = "down" /\ cpc' = "returned")]_vars

\* The attempt on the 1x2 grid has returned.
C18_Witness == OneByTwo /\ cpc = "returned" /\ StepsTaken = 1

\* createMaze is at work on, or has returned, the 3x3 grid with the start at
\* (0,0) and the treasure at (2,2).
ThreeByThree ==
    /\ width = 3 /\ height = 3
    /\ rooms[<<0, 0>>].Start
    /\ rooms[<<2, 2>>].Treasure

\* rt goes from (0,0) to (2,2) in four unit steps, each right or down.
NaiveCorner(rt) ==
    /\ Len(rt) = 5
    /\ rt[1] = <<0, 0>>
    /\ rt[5] = <<2, 2>>
    /\ \A i \in 1..4 : rt[i + 1] \in {Right(rt[i]), Down(rt[i])}

\* C19: on the 3x3 grid with start (0,0) and treasure (2,2), whatever the
\* random choices: cuth and cutv refuse, findRoute returns a naive route,
\* buildMaze terminates, and the grid built has exactly 8 open passages that
\* connect all 9 rooms.
C19_ThreeByThree ==
    /\ []((ThreeByThree /\ pc = "findRoute") =>
            /\ src = <<0, 0>> /\ dst = <<2, 2>>
            /\ \A d1 \in 0..2, d2 \in 0..2 :
                    /\ ~cuth(toRect, src, dst, d1, d2).ok
                    /\ ~cutv(toRect, src, dst, d1, d2).ok
            /\ \A k \in cuts(toRect, src, dst) : ~k.ok)
    /\ []((ThreeByThree /\ pc \in {"paveRoute", "paveOpen", "floodfill"}) =>
            NaiveCorner(route))
    /\ []((ThreeByThree /\ pc = "built") =>
            (Cardinality(OpenPairs) = 8 /\ Connected))
    /\ ((ThreeByThree /\ pc = "findRoute") ~> (pc = "built"))

\* The 3x3 grid with start (0,0) and treasure (2,2) has been built.
C19_Witness == ThreeByThree /\ pc = "built" /\ IsSpanningTree

(***************************************************************************)
(* Properties of findRoute.                                                *)
(***************************************************************************)
\* The regions inside the grid that hold src and dst.
Regions ==
    {r \in {rect(x, y, w, h) : x \in 0..(width - 1), y \in 0..(height - 1),
                               w \in 1..width, h \in 1..height} :
        /\ r.X + r.W <= width /\ r.Y + r.H <= height
        /\ rectContains(r, src) /\ rectContains(r, dst)}

Abs1(n) == IF n < 0 THEN 0 - n ELSE n

Manhattan(a, b) == Abs1(a[1] - b[1]) + Abs1(a[2] - b[2])

\* rt is a naive route from s to d: unit steps, each one closer to d.
IsNaive(rt, s, d) ==
    /\ Len(rt) = Manhattan(s, d) + 1
    /\ rt[1] = s
    /\ rt[Len(rt)] = d
    /\ \A i \in 1..(Len(rt) - 1) :
        /\ Manhattan(rt[i], rt[i + 1]) = 1
        /\ Manhattan(rt[i + 1], d) = Manhattan(rt[i], d) - 1

\* No cut of region r for src and dst, whatever the draws.
NeverCut(r) == \A k \in cuts(r, src, dst) : ~k.ok

\* The region is small, or src and dst share a row or a column.
SmallOrAligned(r) ==
    \/ r.W <= cutLimit \/ r.H <= cutLimit
    \/ src[1] = dst[1] \/ src[2] = dst[2]

\* Neither cut fits: no horizontal one (height at or below cutLimit or the
\* same row) and no vertical one (width at or below cutLimit or the same
\* column).
NoCutFits(r) ==
    /\ (r.H <= cutLimit \/ src[2] = dst[2])
    /\ (r.W <= cutLimit \/ src[1] = dst[1])

\* C20 as stated: findRoute does not cut and emits the naive route whenever
\* the region's width or height is at or below cutLimit, and whenever src
\* and dst share a row or a column.
C20_NaiveWhenSmall ==
    /\ [](pc = "findRoute" =>
            \A r \in Regions : SmallOrAligned(r) => NeverCut(r))
    /\ [][(pc = "findRoute" /\ pc' = "paveRoute" /\ SmallOrAligned(toRect))
            => IsNaive(route', src, dst)]_vars

\* C20 amended: findRoute does not cut and emits the naive route exactly
\* when neither cut fits; when one fits, every draw cuts the region, also a
\* region with one side at or below cutLimit or with src and dst aligned.
C20_NaiveWhenNoCutFits ==
    /\ [](pc = "findRoute" =>
            \A r \in Regions :
                /\ NoCutFits(r) => NeverCut(r)
                /\ ~NoCutFits(r) => \A k \in cuts(r, src, dst) : k.ok)
    /\ [][(pc = "findRoute" /\ pc' = "paveRoute" /\ NoCutFits(toRect))
            => IsNaive(route', src, dst)]_vars

\* findRoute has cut a region of height 2 for src and dst of the same row,
\* and the route makes a detour through the other row.
C20_Witness ==
    /\ pc = "paveRoute"
    /\ width = 4 /\ height = 2
    /\ src[2] = dst[2]
    /\ ~IsNaive(route, src, dst)

(***************************************************************************)
(* Properties of buildMaze's flood fill.                                   *)
(***************************************************************************)
\* buildMaze is about to return: the order is used up and no floodfill runs.
FloodDone == pc = "floodfill" /\ ops = <<>> /\ stack = <<>> /\ order = {}

\* C21: buildMaze uses every coordinate of the route, the last one (the
\* treasure room) included, as a flood-fill seed, and when it returns every
\* room of the grid is marked explored.
C21_EverySeed ==
    /\ [](FloodDone => bexplored = Grid)
    /\ [][(pc = "paveOpen" /\ pc' = "floodfill")
            => order' = 1 .. Len(route')]_vars

(***************************************************************************)
(* Properties of cut.                                                      *)
(***************************************************************************)
\* The coordinates of rectangle r.
RectCells(r) ==
    {c \in (r.X .. (r.X + r.W - 1)) \X (r.Y .. (r.Y + r.H - 1)) : TRUE}

\* The result k of a cut of r for src and dst is as it should be.
GoodCut(r, k) ==
    LET A == RectCells(k.rsrc)
        B == RectCells(k.rdst)
    IN  /\ k.rsrc.W > 0 /\ k.rsrc.H > 0
        /\ k.rdst.W > 0 /\ k.rdst.H > 0
        /\ A \cap B = {}
        /\ A \cup B = RectCells(r)
        /\ src \in A /\ k.csrc \in A
        /\ dst \in B /\ k.cdst \in B
        /\ Manhattan(k.csrc, k.cdst) = 1

\* Every result of cuth, cutv and cut on r, over the first and retry draws.
AllCuts(r) ==
    cuts(r, src, dst)
    \cup {cuth(r, src, dst, d1, d2) : d1 \in 0..(r.W - 1), d2 \in 0..(r.W - 1)}
    \cup {cutv(r, src, dst, d1, d2) : d1 \in 0..(r.H - 1), d2 \in 0..(r.H - 1)}

\* C22: whenever a cut of a rectangle r that contains src and dst succeeds,
\* the two rectangles returned are non-empty, disjoint and cover r, the
\* first holds src and its connecting coordinate, the second dst and its
\* connecting coordinate, and the connecting coordinates are adjacent; for
\* every draw, the retry included.
C22_CutSplits ==
    pc = "findRoute" =>
        \A r \in Regions : \A k \in AllCuts(r) : k.ok => GoodCut(r, k)

\* findRoute has cut the 4x4 region, with a connecting coordinate in the
\* column of src although the draw was retried, and the route crosses the
\* cut line between the two connecting coordinates.
C22_Witness ==
    /\ pc = "paveRoute"
    /\ width = 4 /\ height = 4
    /\ \E k \in cuts(toRect, src, dst) :
        /\ k.ok
        /\ GoodCut(toRect, k)
        /\ k.csrc[1] = src[1]
        /\ \E i \in 1..(Len(route) - 1) :
            route[i] = k.csrc /\ route[i + 1] = k.cdst

(***************************************************************************)
(* Properties of findNaiveRoute.                                           *)
(***************************************************************************)
\* C23: findNaiveRoute(src, dst) returns, for every src and dst and every
\* sequence of random choices, a sequence from src to dst of unit steps on
\* one axis, none away from dst, of length |dx| + |dy| + 1; for src = dst
\* the single coordinate. It terminates: every iteration of its loop brings
\* c one unit closer to dst.
C23_NaiveRoute ==
    /\ pc = "findRoute" =>
        /\ findNaiveRoute(src, dst) # {}
        /\ \A rt \in findNaiveRoute(src, dst) : IsNaive(rt, src, dst)
        /\ src = dst => findNaiveRoute(src, dst) = {<<src>>}
        /\ src # dst =>
            \A rnd \in {0, 1} :
                Manhattan(findNaiveStep(src, dst, rnd), dst)
                    = Manhattan(src, dst) - 1
    /\ pc = "paveRoute" =>
        /\ IsNaive(route, src, dst)
        /\ \A i \in 1..(Len(route) - 1) :
            \/ route[i + 1][1] = route[i][1]
                /\ Abs1(route[i + 1][2] - route[i][2]) = 1
            \/ route[i + 1][2] = route[i][2]
                /\ Abs1(route[i + 1][1] - route[i][1]) = 1

\* findNaiveRoute has returned a route of seven coordinates that changes
\* axis more than once.
C23_Witness ==
    /\ pc = "paveRoute"
    /\ Len(route) = 7
    /\ \E i \in 2..5 :
        /\ route[i][1] # route[i - 1][1]
        /\ route[i + 1][2] # route[i][2]
        /\ route[i + 2][1] # route[i + 1][1]

(***************************************************************************)
(* Properties of findRoute and paveRoute.                                  *)
(***************************************************************************)
\* rt goes from s to d inside r by steps between adjacent coordinates and
\* holds no coordinate twice.
RouteOK(rt, r, s, d) ==
    /\ Len(rt) >= 1
    /\ rt[1] = s
    /\ rt[Len(rt)] = d
    /\ \A i \in 1..Len(rt) : rectContains(r, rt[i])
    /\ \A i \in 1..(Len(rt) - 1) : Manhattan(rt[i], rt[i + 1]) = 1
    /\ \A i, j \in 1..Len(rt) : rt[i] = rt[j] => i = j

\* paveRoute has returned.
PaveDone == pc = "paveOpen" /\ ops = <<>> /\ idx > Len(route)

\* The open passages that touch a room of the route.
RoutePassages == {p \in OpenPairs : p \cap Range(route) # {}}

\* C24: for every rectangle r and src, dst in it, findRoute(src, dst)
\* returns a sequence from src to dst inside r with adjacent consecutive
\* elements and no coordinate twice; paveRoute then opens exactly
\* len(route) - 1 passages and leaves every other side of a route room
\* walled.
C24_RoutePaved ==
    /\ pc = "findRoute" =>
        \A r \in Regions :
            /\ findRoute(r, src, dst) # {}
            /\ \A rt \in findRoute(r, src, dst) : RouteOK(rt, r, src, dst)
    /\ pc \in {"paveRoute", "paveOpen"} => RouteOK(route, toRect, src, dst)
    /\ PaveDone =>
        /\ Cardinality(RoutePassages) = Len(route) - 1
        /\ \A i \in 1..Len(route) : \A dir \in Dirs :
            OpenSide(route[i], dir) <=>
                \E j \in {i - 1, i + 1} \cap (1..Len(route)) :
                    route[j] = Neighbor(route[i], dir)

\* paveRoute has returned on the 4x4 grid for a route findRoute made through
\* a cut, longer than a naive route.
C24_Witness ==
    /\ PaveDone
    /\ width = 4 /\ height = 4
    /\ ~IsNaive(route, src, dst)
    /\ Cardinality(RoutePassages) = Len(route) - 1

(***************************************************************************)
(* Properties of the active path.                                          *)
(***************************************************************************)
\* The entries of the active path, bottom to top.
ActivePath == [i \in 1..path.size |-> path.coordinates[i]]

\* C25: at the start of every iteration of solveMaze's loop the top of the
\* active path, read from the start room, is the occupant's coordinate; every
\* entry of the active path is in explored memory with the true walls of its
\* room as survey; and consecutive entries are adjacent rooms joined by an
\* open passage.
C25_ActivePath ==
    cpc = "loop" =>
        /\ path.size >= 1
        /\ Abs(top(path)) = icarus
        /\ \A i \in 1..path.size :
            /\ ActivePath[i] \in DOMAIN explored
            /\ Abs(ActivePath[i]) \in Grid
            /\ explored[ActivePath[i]] = rooms[Abs(ActivePath[i])].Walls
        /\ \A i \in 1..(path.size - 1) :
            \E dir \in Dirs :
                /\ ActivePath[i + 1] = Neighbor(ActivePath[i], dir)
                /\ OpenSide(Abs(ActivePath[i]), dir)
                /\ OpenSide(Abs(ActivePath[i + 1]), ReverseDirection(dir))

\* An iteration starts after goback has returned to a cut path of three or
\* more entries that still holds entries above its top.
C25_Witness ==
    /\ cpc = "loop"
    /\ path.size >= 3
    /\ path.size < Len(path.coordinates)
    /\ Abs(top(path)) = icarus
    /\ StepsTaken > path.size

(***************************************************************************)
(* Properties of goback's queue.                                           *)
(***************************************************************************)
\* The search of goback(src, dst, explored) stays within its queue: no write
\* past the end, every entry a key of explored, no coordinate twice, the
\* entries being the coordinates given a direction.
QueueWithin(s, d, ex) ==
    LET g == goback(s, d, ex) IN
    /\ ~g.overflow
    /\ Len(g.queue) <= Cardinality(DOMAIN ex)
    /\ Range(g.queue) \subseteq DOMAIN ex
    /\ \A i, j \in 1..Len(g.queue) : g.queue[i] = g.queue[j] => i = j
    /\ DOMAIN g.from = Range(g.queue)

\* C26: goback's breadth-first search never writes past the end of its
\* queue of length len(explored): from where the occupant stands to any
\* explored dst, only explored coordinates are enqueued, each at most once,
\* so the entries never outnumber explored memory.
C26_QueueBounded ==
    /\ cpc = "loop" =>
            \A d \in DOMAIN explored : QueueWithin(top(path), d, explored)
    /\ cpc \in {"goback", "call", "called"} =>
            /\ DOMAIN walk.from \subseteq DOMAIN explored
            /\ QueueWithin(walk.src, walk.dst, explored)

\* goback has searched every coordinate of an explored memory of four rooms
\* or more before it met src.
C26_Witness ==
    /\ cpc = "call"
    /\ Cardinality(DOMAIN explored) >= 4
    /\ DOMAIN walk.from = DOMAIN explored
    /\ Len(goback(walk.src, walk.dst, explored).queue)
        = Cardinality(DOMAIN explored)

(***************************************************************************)
(* Properties of a session after Victory.                                  *)
(***************************************************************************)
\* The occupant stands on the treasure of the maze being served.
OnTreasure == pc = "serving" /\ icarus = end

\* A request served on the treasure: MoveLeft, MoveRight, MoveUp and MoveDown
\* return ErrVictory; whatever the token, the occupant, StepsTaken, the
\* treasure and the rooms stay and the maze goes on being served.
VictoryKept ==
    OnTreasure =>
        /\ (ret'.op = "MoveDirection"
                /\ ret'.arg \in {"left", "right", "up", "down"}
                /\ ret' # ret)
            => (ret'.err = "victory" /\ scores' = scores)
        /\ UNCHANGED <<icarus, StepsTaken, end, rooms>>
        /\ OnTreasure'

\* C27: Victory is absorbing for a session: once the occupant is on the
\* treasure, every later MoveLeft/MoveRight/MoveUp/MoveDown returns
\* ErrVictory and leaves the occupant and StepsTaken unchanged, and LookAround
\* keeps signalling Victory, for as long as the maze is served.
C27_VictoryAbsorbing ==
    /\ [](OnTreasure =>
            /\ LookAround(Maze).err = "victory"
            /\ \A mv \in {MoveLeft(Maze), MoveRight(Maze),
                           MoveUp(Maze), MoveDown(Maze)} :
                    mv.err = "victory" /\ mv.m = Maze)
    /\ [][VictoryKept]_vars

\* A move was asked for on the treasure after the Victory reply and was
\* answered with ErrVictory, the score of the session being recorded once.
C27_Witness ==
    /\ OnTreasure
    /\ ret.op = "MoveDirection"
    /\ ret.arg = "up"
    /\ ret.err = "victory"
    /\ ~rooms[icarus].Walls.Top
    /\ Len(scores) = 1
    /\ StepsTaken >= 2

(***************************************************************************)
(* Termination of createMaze.                                              *)
(***************************************************************************)
\* createMaze is in its loop with the treasure drawn on the start.
Redrawing == pc = "draw" /\ dst = src

\* C28: createMaze returns for every grid with W > 0 and H > 0, the 1x1 grid
\* included: once called it eventually returns the maze, the loop that
\* redraws (dx, dy) until it differs from (sx, sy) being left.
C28_CreateMazeReturns == (pc = "createMaze") ~> (pc = "built")

\* createMaze has been called on a grid of two rooms or more.
CalledOffOne == pc = "createMaze" /\ Cardinality(Grid) > 1

\* The same for the grids of two rooms or more.
CreateMazeReturnsOffOne == CalledOffOne ~> (pc = "built")

\* On the 1x1 grid the loop is entered at the first draw and never left.
RedrawsForever == (Cardinality(Grid) = 1 /\ pc # "createMaze") => Redrawing

(***************************************************************************)
(* The direction algebra of common: ReverseDirection, Neighbor, GetDir.    *)
(***************************************************************************)
\* Coordinates run over -MaxCoord .. MaxCoord on both axes: the rooms of a
\* maze and the explorer's coordinates around its origin.
MaxCoord == 3

Coords == (0 - MaxCoord .. MaxCoord) \X (0 - MaxCoord .. MaxCoord)

\* A coordinate c (src) and a direction d (idx) to apply the functions to.
InitAlgebra ==
    /\ width = 1
    /\ height = 1
    /\ rooms = emptyMaze(width, height)
    /\ icarus = <<0, 0>>
    /\ end = <<0, 0>>
    /\ StepsTaken = 0
    /\ pc = "Neighbor"
    /\ src \in Coords
    /\ dst = src
    /\ route = <<>>
    /\ idx \in {N, S, E, W}
    /\ bexplored = {}
    /\ order = {}
    /\ stack = <<>>
    /\ ops = <<>>
    /\ scores = <<>>
    /\ ret = NoCall
    /\ explored = <<>>
    /\ path = newPath
    /\ cpc = "idle"
    /\ walk = NoWalk

\* dst := c.Neighbor(d).
CallNeighbor ==
    /\ pc = "Neighbor"
    /\ dst' = Neighbor(src, idx)
    /\ pc' = "GetDir"
    /\ UNCHANGED <<width, height, rooms, session, src, route, idx, bexplored,
                   order, stack, ops, rest>>

\* c.GetDir(dst) and dst.GetDir(c).
CallGetDir ==
    /\ pc = "GetDir"
    /\ ret' = [op |-> "GetDir", arg |-> <<src, dst>>,
               dir |-> GetDir(src, dst), back |-> GetDir(dst, src)]
    /\ pc' = "Reverse"
    /\ UNCHANGED <<width, height, rooms, session, build, scores, client>>

\* dst := dst.Neighbor(ReverseDirection[d]).
CallReverse ==
    /\ pc = "Reverse"
    /\ dst' = Neighbor(dst, ReverseDirection(idx))
    /\ pc' = "back"
    /\ UNCHANGED <<width, height, rooms, session, src, route, idx, bexplored,
                   order, stack, ops, rest>>

NextAlgebra == CallNeighbor \/ CallGetDir \/ CallReverse

SpecAlgebra == InitAlgebra /\ [][NextAlgebra]_vars

\* C29: ReverseDirection maps each of N, S, E, W to another direction and is
\* an involution; for every coordinate c and direction d, c.Neighbor(d) is
\* one unit from c on one axis, c.Neighbor(d).Neighbor(ReverseDirection[d])
\* = c, c.GetDir(c.Neighbor(d)) = d and c.Neighbor(d).GetDir(c) =
\* ReverseDirection[d].
C29_DirectionAlgebra ==
    /\ ReverseDirection(idx) \in {N, S, E, W} \ {idx}
    /\ ReverseDirection(ReverseDirection(idx)) = idx
    /\ pc = "GetDir" =>
            /\ Manhattan(src, dst) = 1
            /\ dst[1] = src[1] \/ dst[2] = src[2]
    /\ pc = "Reverse" =>
            /\ ret.dir = idx
            /\ ret.back = ReverseDirection(idx)
    /\ pc = "back" => dst = src

\* The round trip to the north of a coordinate left of and above the origin
\* has come back to it.
C29_Witness ==
    /\ pc = "back"
    /\ idx = N
    /\ src = <<0 - 1, 0 - 2>>
    /\ dst = src
    /\ ret.op = "GetDir"
    /\ ret.arg = <<src, <<0 - 1, 0 - 3>>>>
    /\ ret.dir = N
    /\ ret.back = S

(***************************************************************************)
(* The first revision of the client (directions as integers, its own       *)
(* Coordinate): pickNeighbor without the permutation, and goback.          *)
(***************************************************************************)
MaxMoves == 3

getDirections == <<N, S, E, W>>

\* pickNeighbor of the first revision: the first direction of
\* getDirections without a wall that leads to an unexplored coordinate.
FirstPickNeighbor(coordinate, ex) ==
    LET found == {k \in 1..Len(getDirections) :
                    /\ ~HasWall(SurveyAt(ex, coordinate), getDirections[k])
                    /\ Neighbor(coordinate, getDirections[k]) \notin DOMAIN ex}
    IN  IF found = {} THEN {}
        ELSE {getDirections[CHOOSE k \in found : \A j \in found : k <= j]}

\* solveMaze of the first revision: an iteration in which pickNeighbor finds
\* a neighbor.
FirstSolveStep ==
    /\ cpc = "loop"
    /\ \E dir \in FirstPickNeighbor(top(path), explored) :
        LET next == Neighbor(top(path), dir)
            mv == Move(ret')
        IN  /\ Request(d2s(dir))
            /\ IF mv.err = "victory"
               THEN cpc' = "returned" /\ UNCHANGED <<path, explored>>
               ELSE /\ path' = push(path, next)
                    /\ explored' = MapSet(explored, next, mv.survey)
                    /\ cpc' = "loop"
    /\ UNCHANGED <<width, height, pc, build, walk>>

\* goback of the first revision, one pass of `for c := src; c != dst;
\* c.Neighbor(from[c])`: the condition, then the body (ret += 1 and Move),
\* then the post statement, which computes the neighbor of c and drops it,
\* so c stays. The moves are counted up to MaxMoves.
FirstGobackWalk ==
    /\ cpc = "goback"
    /\ IF walk.c = walk.dst
       THEN /\ walk' = NoWalk
            /\ cpc' = "loop"
            /\ UNCHANGED <<rooms, session, scores, ret>>
       ELSE /\ walk.n < MaxMoves
            /\ IF d2s(FromAt(walk.from, walk.c))
                    \in {"left", "right", "up", "down"}
               THEN Request(d2s(FromAt(walk.from, walk.c)))
               ELSE UNCHANGED <<rooms, session, scores, ret>>
            /\ walk' = [walk EXCEPT !.n = @ + 1]
            /\ cpc' = cpc
    /\ UNCHANGED <<width, height, pc, build, explored, path>>

\* The steps of a solve attempt of the first revision.
FirstSolve ==
    \/ Awake
    \/ SolveStart
    \/ FirstSolveStep
    \/ SolveBacktrack
    \/ FirstGobackWalk

NextFirst == Next \/ FirstSolve

SpecFirst == Init /\ [][NextFirst]_vars /\ WF_vars(NextFirst)

\* A pass of goback's walk that issues a move goes on from the neighbor of c
\* in the recorded direction.
FirstWalkAdvances ==
    (cpc = "goback" /\ walk'.n = walk.n + 1)
        => walk'.c = Neighbor(walk.c, FromAt(walk.from, walk.c))

\* C30: in the first revision goback's reconstruction loop walks from src
\* along the recorded directions, one physical move per step, and ends when
\* dst is reached: called with src # dst it issues finitely many moves and
\* returns to solveMaze's loop.
C30_FirstGobackReturns ==
    /\ [][FirstWalkAdvances]_vars
    /\ (cpc = "goback") ~> (cpc = "loop")

\* The walk of the first revision alone: eventually it is over.
FirstWalkEnds == (cpc = "goback") ~> (cpc = "loop")

\* In the first revision goback's walk never leaves src and never returns.
FirstWalkStays == cpc = "goback" => (walk.c = walk.src /\ walk.c # walk.dst)

====
